---- MODULE Spec2Model ----
(***************************************************************************)
(* fast-lazyload: the observation-and-reveal coordinator of src/index.ts.  *)
(*                                                                         *)
(* The program state is the live document (the elements, their attributes, *)
(* classes and geometry, the document order), the IntersectionObserver's   *)
(* observation targets and queued entries, the MutationObserver's queued   *)
(* records, and the event listeners the code registers.  One action per    *)
(* handler of the code, plus the page and platform steps that drive them.  *)
(***************************************************************************)
EXTENDS Integers, Sequences, FiniteSets, TLC

\* ------------------------------------------------------------------ bounds
\* Number of DOM operations (insert, move, remove, relayout) the page performs
\* after activation.
MaxPageOps == 2

\* The largest coordinate and viewport size of the rectangles and windows
\* given to the viewport predicate on its own.
MaxCoord == 3

\* ------------------------------------------------------------ value domain
\* An attribute that is not set (hasAttribute false, dataset value undefined).
None == "<absent>"

\* String(v) as JavaScript converts a dataset value assigned to a DOM string
\* property or interpolated in a template literal: undefined -> "undefined".
Str(v) == IF v = None THEN "undefined" ELSE v

\* The template literal `url(${x})`.
Url(v) == "url(" \o Str(v) \o ")"

\* The data-* attribute names that the documents of the model use.
AttrNames == {"lazy", "defer"}

\* The companion attribute data-<attribute>-srcset of a marker attribute.
Companion(a) == a \o "-srcset"

\* Every data-* attribute an element of the model can carry.
DataNames == AttrNames \cup { Companion(a) : a \in AttrNames }

NoData == [a \in DataNames |-> None]

\* The compiled-in defaults of Options.
DefaultOptions ==
    [loading |-> "lazy-loading", failed |-> "lazy-failed", on |-> "lazy",
     loaded |-> "lazy-loaded", attribute |-> "lazy"]

\* ---------------------------------------------------------------- geometry
\* Bounding rectangles used by the documents of the model: one overlapping the
\* viewport, one below the fold (top: 5000px), and the empty rectangle of an
\* element that generates no box (a script element).
OnRect == [top |-> 1, left |-> 1, bottom |-> 2, right |-> 2]
OffRect == [top |-> 5000, left |-> 1, bottom |-> 5001, right |-> 2]
ZeroRect == [top |-> 0, left |-> 0, bottom |-> 0, right |-> 0]

\* window.innerWidth/innerHeight and documentElement.clientWidth/clientHeight
\* of the page.
Viewport == [innerWidth |-> 4, innerHeight |-> 3, clientWidth |-> 4, clientHeight |-> 3]

\* a || b on numbers.
OrElse(a, b) == IF a # 0 THEN a ELSE b

\* The predicate counting a rectangle that touches an edge as visible.
isElementInViewportInclusive(rect, w) ==
    /\ rect.bottom >= 0
    /\ rect.right >= 0
    /\ rect.left <= OrElse(w.innerWidth, w.clientWidth)
    /\ rect.top <= OrElse(w.innerHeight, w.clientHeight)

isElementInViewport(rect, w) ==
    /\ rect.bottom > 0
    /\ rect.right > 0
    /\ rect.left < OrElse(w.innerWidth, w.clientWidth)
    /\ rect.top < OrElse(w.innerHeight, w.clientHeight)

\* -------------------------------------------------------------- the document
\* The elements the page author wrote, by node id.  1: an image without src,
\* 2: a block with an inline background image, 3: a script placeholder that
\* also carries a type attribute.
AuthorElements ==
    << [tag |-> "IMG", data |-> [NoData EXCEPT !["lazy"] = "a.png"], src |-> None, srcset |-> None,
        bg |-> None, fetchpriority |-> None, extra |-> {}, classes |-> {}, rect |-> OffRect],
       [tag |-> "DIV", data |-> [NoData EXCEPT !["lazy"] = "b.png"], src |-> None, srcset |-> None,
        bg |-> Url("proxy.jpg"), fetchpriority |-> None, extra |-> {}, classes |-> {},
        rect |-> OffRect],
       [tag |-> "SCRIPT", data |-> [NoData EXCEPT !["lazy"] = "c.js"], src |-> None, srcset |-> None,
        bg |-> None, fetchpriority |-> None, extra |-> {"type"}, classes |-> {},
        rect |-> ZeroRect] >>

AuthorNodes == 1..Len(AuthorElements)

\* Node ids: the author's elements and the script elements that
\* document.createElement('script') can return.
Nodes == 1..(Len(AuthorElements) + MaxPageOps)

\* A node id for which no element has been created yet.
NoElement ==
    [tag |-> "none", data |-> NoData, src |-> None, srcset |-> None, bg |-> None,
     fetchpriority |-> None,
     extra |-> {}, classes |-> {}, rect |-> ZeroRect]

VARIABLES
    Options,        \* the resolved configuration record
    hasIO,          \* 'IntersectionObserver' in window
    hasMO,          \* 'MutationObserver' in window
    window,         \* viewport dimensions
    phase,          \* "init" before fastLazyLoad ran, then "coordinator" or "fallback"
    el,             \* node id -> element (attributes, classes, geometry)
    doc,            \* the attached elements of the body subtree, in document order
    watchSet,       \* observation targets of lazyObserver
    prevInt,        \* per target, the isIntersecting value last reported ("none": never)
    ioQueue,        \* queued IntersectionObserverEntry records
    moQueue,        \* queued MutationRecord records
    listeners,      \* node id -> number of load/error listener pairs registered on it
    loadListeners,  \* the nodes captured by the window 'load' listeners, in order
    loadFired,      \* the window load event has fired
    fetches,        \* node id -> resource fetches started by a src assignment, not yet settled
    created,        \* number of elements made by document.createElement
    pageOps,        \* number of DOM operations performed by the page
    unveiled,       \* history: node id -> number of calls of unveil on it
    everWatched,    \* history: nodes that were ever passed to lazyObserver.observe
    entered,        \* history: nodes for which an isIntersecting entry was handled
    immediate,      \* history: nodes the MutationObserver callback revealed at once
    startup,        \* history: node id -> how querySelectorAll found it at activation
    loadSeen,       \* history: nodes on which a load event was dispatched
    errorSeen,      \* history: nodes on which an error event was dispatched
    loadRuns,       \* history: node id -> executions of a load listener body on it
    errorRuns       \* history: node id -> executions of an error listener body on it

vars ==
    << Options, hasIO, hasMO, window, phase, el, doc, watchSet, prevInt, ioQueue, moQueue,
       listeners, loadListeners, loadFired, fetches, created, pageOps, unveiled,
       everWatched, entered, immediate, startup, loadSeen, errorSeen, loadRuns,
       errorRuns >>

\* The part of the state the handlers of the code read and write, as one record.
Cur ==
    [el |-> el, doc |-> doc, watchSet |-> watchSet, prevInt |-> prevInt,
     moQueue |-> moQueue, listeners |-> listeners, loadListeners |-> loadListeners,
     fetches |-> fetches, created |-> created, unveiled |-> unveiled,
     everWatched |-> everWatched, entered |-> entered, immediate |-> immediate]

Commit(s) ==
    /\ el' = s.el
    /\ doc' = s.doc
    /\ watchSet' = s.watchSet
    /\ prevInt' = s.prevInt
    /\ moQueue' = s.moQueue
    /\ listeners' = s.listeners
    /\ loadListeners' = s.loadListeners
    /\ fetches' = s.fetches
    /\ created' = s.created
    /\ unveiled' = s.unveiled
    /\ everWatched' = s.everWatched
    /\ entered' = s.entered
    /\ immediate' = s.immediate

\* ------------------------------------------------------------------ helpers
InDoc(d, n) == \E i \in 1..Len(d) : d[i] = n

IndexOf(d, n) == CHOOSE i \in 1..Len(d) : d[i] = n

Without(d, n) == SelectSeq(d, LAMBDA m : m # n)

InsertAt(d, i, n) == SubSeq(d, 1, i - 1) \o <<n>> \o SubSeq(d, i, Len(d))

\* The selector test without the attribute selector.
MatchesAnyElement(e, opts) == e.tag # "none"

\* node.matches(`[data-${Options.attribute}]`)
Matches(e, opts) == e.tag # "none" /\ e.data[opts.attribute] # None

\* document.querySelectorAll(`[data-${Options.attribute}]`), in document order.
QuerySelectorAll(d, elf, opts) == SelectSeq(d, LAMBDA n : Matches(elf[n], opts))

\* --------------------------------------------------------------- unveil
\* unveil with the removal of the marker left inside the src branch.
unveilElementMarkerKept(e, opts) ==
    IF e.bg # None
    THEN [e EXCEPT !.bg = Url(e.data["lazy"])]
    ELSE [e EXCEPT !.src = Str(e.data["lazy"]), !.data[opts.attribute] = None]

\* unveil on one element: the element after the call.
unveilElement(e, opts) ==
    LET shown ==
            IF e.bg # None
            THEN [e EXCEPT !.bg = Url(e.data["lazy"])]
            ELSE [e EXCEPT !.src = Str(e.data["lazy"])]
    IN  [shown EXCEPT !.data[opts.attribute] = None]

\* unveil(node) on the state: the element changes, an assignment to src starts
\* a resource fetch, and the call is counted.
unveil(s, n, opts) ==
    [s EXCEPT !.el[n] = unveilElement(s.el[n], opts),
              !.fetches[n] = IF s.el[n].bg # None THEN @ ELSE @ + 1,
              !.unveiled[n] = @ + 1]

\* node.classList.add(c)
AddClass(s, n, c) == [s EXCEPT !.el[n].classes = @ \cup {c}]

\* lazyObserver.observe(n): a target already observed is left as it is.
observe(s, n) ==
    IF n \in s.watchSet
    THEN [s EXCEPT !.everWatched = @ \cup {n}]
    ELSE [s EXCEPT !.watchSet = @ \cup {n}, !.prevInt[n] = "none",
                   !.everWatched = @ \cup {n}]

\* observer.unobserve(n)
unobserve(s, n) == [s EXCEPT !.watchSet = @ \ {n}]

\* ------------------------------------------------------------ fallbackNode
\* fallbackNode giving the element the classes of the observed path.
fallbackNodeAsObserved(s, n, opts) ==
    AddClass(AddClass(unveil(s, n, opts), n, opts.on), n, opts.loaded)

fallbackNode(s, n, opts) == AddClass(unveil(s, n, opts), n, opts.loaded)

\* ------------------------------------------------------- lazyLoadBackgrounds
\* The body of entries.forEach without the loading class.
HandleEntryNoLoading(s, entry, opts) ==
    IF entry.isIntersecting
    THEN LET t == entry.target
             s1 == AddClass(s, t, opts.on)
             s2 == [s1 EXCEPT !.listeners[t] = @ + 1, !.entered = @ \cup {t}]
             s3 == unveil(s2, t, opts)
         IN  unobserve(s3, t)
    ELSE s

\* The body of entries.forEach without the unobserve call.
HandleEntryKeepsWatching(s, entry, opts) ==
    IF entry.isIntersecting
    THEN LET t == entry.target
             s1 == AddClass(s, t, opts.on)
             s2 == [s1 EXCEPT !.listeners[t] = @ + 1, !.entered = @ \cup {t}]
             s3 == AddClass(s2, t, opts.loading)
         IN  unveil(s3, t, opts)
    ELSE s

\* The body of entries.forEach for one entry.
HandleEntry(s, entry, opts) ==
    IF entry.isIntersecting
    THEN LET t == entry.target
             s1 == AddClass(s, t, opts.on)
             s2 == [s1 EXCEPT !.listeners[t] = @ + 1, !.entered = @ \cup {t}]
             s3 == AddClass(s2, t, opts.loading)
             s4 == unveil(s3, t, opts)
         IN  unobserve(s4, t)
    ELSE s

\* The handler leaving the loop at the first entry that is not intersecting.
RECURSIVE lazyLoadBackgroundsUntilMiss(_, _, _)
lazyLoadBackgroundsUntilMiss(s, entries, opts) ==
    IF entries = <<>> \/ ~Head(entries).isIntersecting
    THEN s
    ELSE lazyLoadBackgroundsUntilMiss(HandleEntry(s, Head(entries), opts), Tail(entries), opts)

RECURSIVE lazyLoadBackgrounds(_, _, _)
lazyLoadBackgrounds(s, entries, opts) ==
    IF entries = <<>>
    THEN s
    ELSE lazyLoadBackgrounds(HandleEntry(s, Head(entries), opts), Tail(entries), opts)

\* ----------------------------------------------------------------- lazyscript
\* lazyscript(node): registers one more listener on the window load event.
lazyscript(s, n) == [s EXCEPT !.loadListeners = Append(@, n)]

\* The new script as a copy of the placeholder with src assigned.
NewScriptCloned(e, opts) == [e EXCEPT !.src = Str(e.data["lazy"])]

\* The element document.createElement('script') returns, after the listener
\* copied the marker attribute of the placeholder and assigned src.
NewScript(e, opts) ==
    [NoElement EXCEPT !.tag = "SCRIPT",
                      !.data[opts.attribute] = e.data[opts.attribute],
                      !.src = Str(e.data["lazy"])]

\* A MutationRecord of type childList.
Record(added, removed) == [type |-> "childList", addedNodes |-> added, removedNodes |-> removed]

\* The listener lazyscript registered for placeholder n, run by the load event.
\* insertBefore and remove act only while the placeholder has a parent.
ReplaceScript(s, n, opts) ==
    LET id == Len(AuthorElements) + s.created + 1
        s1 == [s EXCEPT !.created = @ + 1, !.el[id] = NewScript(s.el[n], opts)]
    IN  IF InDoc(s1.doc, n)
        THEN [s1 EXCEPT !.doc = Without(InsertAt(@, IndexOf(@, n), id), n),
                        !.fetches[id] = @ + 1,
                        !.moQueue = @ \o << Record(<<id>>, <<>>), Record(<<>>, <<n>>) >>]
        ELSE s1

RECURSIVE RunLoadListeners(_, _, _)
RunLoadListeners(s, ls, opts) ==
    IF ls = <<>>
    THEN s
    ELSE RunLoadListeners(ReplaceScript(s, Head(ls), opts), Tail(ls), opts)

\* ------------------------------------------------- MutationObserver callback
\* getBoundingClientRect(): an element outside the document has no box.
RectOf(s, n) == IF InDoc(s.doc, n) THEN s.el[n].rect ELSE ZeroRect

\* The hint set without the hasAttribute test.
SetPriorityAlways(s, n) ==
    IF s.el[n].tag \in {"IMG", "VIDEO"}
    THEN [s EXCEPT !.el[n].fetchpriority = "high"]
    ELSE s

\* isElement.hasAttribute('fetchpriority') || isElement.setAttribute('fetchpriority', 'high')
SetPriority(s, n) ==
    IF s.el[n].tag \in {"IMG", "VIDEO"} /\ s.el[n].fetchpriority = None
    THEN [s EXCEPT !.el[n].fetchpriority = "high"]
    ELSE s

\* The classifier with the observe call outside the else branch.
ClassifyAlwaysObserve(s, n, opts, w) ==
    IF Matches(s.el[n], opts)
    THEN IF s.el[n].tag = "SCRIPT"
         THEN lazyscript(s, n)
         ELSE IF isElementInViewport(RectOf(s, n), w)
              THEN observe([SetPriority(unveil(s, n, opts), n) EXCEPT !.immediate = @ \cup {n}], n)
              ELSE observe(s, n)
    ELSE s

\* The body of mutation.addedNodes.forEach for one node (every node of the
\* model is an element node, nodeType 1).
Classify(s, n, opts, w) ==
    IF Matches(s.el[n], opts)
    THEN IF s.el[n].tag = "SCRIPT"
         THEN lazyscript(s, n)
         ELSE IF isElementInViewport(RectOf(s, n), w)
              THEN [SetPriority(unveil(s, n, opts), n) EXCEPT !.immediate = @ \cup {n}]
              ELSE observe(s, n)
    ELSE s

RECURSIVE ClassifyAll(_, _, _, _)
ClassifyAll(s, ns, opts, w) ==
    IF ns = <<>>
    THEN s
    ELSE ClassifyAll(Classify(s, Head(ns), opts, w), Tail(ns), opts, w)

\* The callback with a cleanup of the Watch Set for the removed nodes.
RECURSIVE MutationCallbackCleansUp(_, _, _, _)
MutationCallbackCleansUp(s, mutationsList, opts, w) ==
    IF mutationsList = <<>>
    THEN s
    ELSE LET mutation == Head(mutationsList)
             s1 == IF mutation.type = "childList"
                   THEN ClassifyAll(s, mutation.addedNodes, opts, w)
                   ELSE s
             s2 == [s1 EXCEPT !.watchSet = @ \ { mutation.removedNodes[i] :
                                                    i \in DOMAIN mutation.removedNodes }]
         IN  MutationCallbackCleansUp(s2, Tail(mutationsList), opts, w)

RECURSIVE MutationCallback(_, _, _, _)
MutationCallback(s, mutationsList, opts, w) ==
    IF mutationsList = <<>>
    THEN s
    ELSE LET mutation == Head(mutationsList)
             s1 == IF mutation.type = "childList"
                   THEN ClassifyAll(s, mutation.addedNodes, opts, w)
                   ELSE s
         IN  MutationCallback(s1, Tail(mutationsList), opts, w)

\* ------------------------------------------------------------- fastLazyLoad
\* fastLazyLoad revealing at once the elements that are in the viewport.
ObserveAllOffscreen(s, ns) ==
    LET Step(st, n) ==
            IF isElementInViewport(RectOf(st, n), window)
            THEN unveil(st, n, Options)
            ELSE observe(st, n)
        RECURSIVE Go(_, _)
        Go(st, q) == IF q = <<>> THEN st ELSE Go(Step(st, Head(q)), Tail(q))
    IN  Go(s, ns)

RECURSIVE ObserveAll(_, _)
ObserveAll(s, ns) ==
    IF ns = <<>> THEN s ELSE ObserveAll(observe(s, Head(ns)), Tail(ns))

RECURSIVE FallbackAll(_, _, _)
FallbackAll(s, ns, opts) ==
    IF ns = <<>> THEN s ELSE FallbackAll(fallbackNode(s, Head(ns), opts), Tail(ns), opts)

\* The branch fastLazyLoad takes.
UseCoordinator(io, mo) == io /\ mo

fastLazyLoad ==
    /\ phase = "init"
    /\ LET lazyElements == QuerySelectorAll(doc, el, Options)
       IN  IF UseCoordinator(hasIO, hasMO)
           THEN /\ Commit(ObserveAll(Cur, lazyElements))
                /\ phase' = "coordinator"
           ELSE /\ Commit(FallbackAll(Cur, lazyElements, Options))
                /\ phase' = "fallback"
    /\ startup' = [n \in Nodes |->
                      IF InDoc(doc, n) /\ Matches(el[n], Options)
                      THEN IF isElementInViewport(el[n].rect, window)
                           THEN "onscreen" ELSE "offscreen"
                      ELSE "absent"]
    /\ UNCHANGED << loadRuns, errorRuns, Options, hasIO, hasMO, window, ioQueue, loadFired, pageOps,
                    loadSeen, errorSeen >>

\* ------------------------------------------------------ the page's operations
\* The MutationObserver queues a record only once observer.observe has run.
Queue(q, recs) == IF phase = "coordinator" THEN q \o recs ELSE q

PageStep ==
    /\ phase # "init"
    /\ pageOps < MaxPageOps
    /\ pageOps' = pageOps + 1

RECURSIVE SetToSeq(_)
SetToSeq(S) ==
    IF S = {} THEN <<>>
    ELSE LET m == CHOOSE x \in S : \A y \in S : x <= y
         IN  <<m>> \o SetToSeq(S \ {m})

\* parent.appendChild(r) for a detached subtree with root r: the descendants
\* come into the document with it, and the record names the root only.  Only
\* a block has element children.
InsertSubtree(r, D) ==
    /\ PageStep
    /\ D # {} => el[r].tag = "DIV"
    /\ doc' = doc \o <<r>> \o SetToSeq(D)
    /\ moQueue' = Queue(moQueue, << Record(<<r>>, <<>>) >>)
    /\ UNCHANGED << loadRuns, errorRuns, startup, Options, hasIO, hasMO, window, phase, el, watchSet, prevInt, ioQueue,
                    listeners, loadListeners, loadFired, fetches, created, unveiled,
                    everWatched, entered, immediate, loadSeen, errorSeen >>

\* parent.appendChild(n) for an element that is in the document: it moves to
\* the end, one record for the removal and one for the insertion.
MoveNode(n) ==
    /\ PageStep
    /\ InDoc(doc, n)
    /\ doc' = Append(Without(doc, n), n)
    /\ moQueue' = Queue(moQueue, << Record(<<>>, <<n>>), Record(<<n>>, <<>>) >>)
    /\ UNCHANGED << loadRuns, errorRuns, startup, Options, hasIO, hasMO, window, phase, el, watchSet, prevInt, ioQueue,
                    listeners, loadListeners, loadFired, fetches, created, unveiled,
                    everWatched, entered, immediate, loadSeen, errorSeen >>

\* n.remove()
RemoveNode(n) ==
    /\ PageStep
    /\ InDoc(doc, n)
    /\ doc' = Without(doc, n)
    /\ moQueue' = Queue(moQueue, << Record(<<>>, <<n>>) >>)
    /\ UNCHANGED << loadRuns, errorRuns, startup, Options, hasIO, hasMO, window, phase, el, watchSet, prevInt, ioQueue,
                    listeners, loadListeners, loadFired, fetches, created, unveiled,
                    everWatched, entered, immediate, loadSeen, errorSeen >>

\* A scroll, resize or style change gives a rendered element another rectangle.
Relayout(n, r) ==
    /\ PageStep
    /\ InDoc(doc, n)
    /\ el[n].tag # "SCRIPT"
    /\ el[n].rect # r
    /\ el' = [el EXCEPT ![n].rect = r]
    /\ UNCHANGED << loadRuns, errorRuns, startup, Options, hasIO, hasMO, window, phase, doc, watchSet, prevInt, ioQueue,
                    moQueue, listeners, loadListeners, loadFired, fetches, created,
                    unveiled, everWatched, entered, immediate, loadSeen, errorSeen >>

\* ------------------------------------------------------ the platform's steps
\* Tasks run only after the pending mutation records were delivered (the
\* MutationObserver callback is a microtask).
TaskStep == phase # "init" /\ moQueue = <<>>

\* The isIntersecting value the platform computes for a target against the
\* viewport: the target is rendered in the document and its box meets the viewport.
Intersecting(n) ==
    /\ InDoc(doc, n)
    /\ el[n].rect # ZeroRect
    /\ el[n].rect.bottom >= 0
    /\ el[n].rect.right >= 0
    /\ el[n].rect.left <= OrElse(window.innerWidth, window.clientWidth)
    /\ el[n].rect.top <= OrElse(window.innerHeight, window.clientHeight)

Reported(b) == IF b THEN "true" ELSE "false"

\* The targets whose intersection state differs from the one the platform last
\* reported (every target just observed is one).
Changed == { t \in watchSet : prevInt[t] # Reported(Intersecting(t)) }

\* The orders in which the elements of a set can be listed.
Orders(S) == { q \in [1..Cardinality(S) -> S] : \A i, j \in DOMAIN q : i # j => q[i] # q[j] }

\* The platform updates the rendering: it queues one entry for every target
\* whose intersection state changed, in an order of its choosing.
UpdateRendering(order) ==
    /\ TaskStep
    /\ order # <<>>
    /\ ioQueue' = ioQueue \o [i \in DOMAIN order |->
                                 [target |-> order[i], isIntersecting |-> Intersecting(order[i])]]
    /\ prevInt' = [t \in Nodes |-> IF t \in Changed THEN Reported(Intersecting(t)) ELSE prevInt[t]]
    /\ UNCHANGED << loadRuns, errorRuns, startup, Options, hasIO, hasMO, window, phase, el, doc, watchSet, moQueue,
                    listeners, loadListeners, loadFired, fetches, created, pageOps,
                    unveiled, everWatched, entered, immediate, loadSeen, errorSeen >>

\* The platform invokes lazyLoadBackgrounds with the queued entries.
IntersectionCallback ==
    /\ TaskStep
    /\ ioQueue # <<>>
    /\ Commit(lazyLoadBackgrounds(Cur, ioQueue, Options))
    /\ ioQueue' = <<>>
    /\ UNCHANGED << loadRuns, errorRuns, startup, Options, hasIO, hasMO, window, phase, loadFired, pageOps,
                    loadSeen, errorSeen >>

\* The platform invokes the MutationObserver callback with the queued records.
MutationDelivery ==
    /\ phase = "coordinator"
    /\ moQueue # <<>>
    /\ Commit(MutationCallback([Cur EXCEPT !.moQueue = <<>>], moQueue, Options, window))
    /\ UNCHANGED << loadRuns, errorRuns, startup, Options, hasIO, hasMO, window, phase, ioQueue, loadFired, pageOps,
                    loadSeen, errorSeen >>

\* The window load event: every listener lazyscript registered so far runs.
WindowLoad ==
    /\ TaskStep
    /\ ~loadFired
    /\ loadFired' = TRUE
    /\ Commit(RunLoadListeners(Cur, loadListeners, Options))
    /\ UNCHANGED << loadRuns, errorRuns, startup, Options, hasIO, hasMO, window, phase, ioQueue, pageOps,
                    loadSeen, errorSeen >>

\* The listener registered on 'load' by lazyLoadBackgrounds.
OnLoad(e, opts) == [e EXCEPT !.classes = (@ \cup {opts.loaded}) \ {opts.loading}]

\* The error listener also taking the loading class away.
OnErrorClearsLoading(e, opts) == [e EXCEPT !.classes = (@ \cup {opts.failed}) \ {opts.loading}]

\* The listener registered on 'error' by lazyLoadBackgrounds.
OnError(e, opts) == [e EXCEPT !.classes = @ \cup {opts.failed}]

\* A fetch started for n ends well: the load event runs the load listeners of n.
ElementLoad(n) ==
    /\ TaskStep
    /\ fetches[n] > 0
    /\ fetches' = [fetches EXCEPT ![n] = @ - 1]
    /\ el' = [el EXCEPT ![n] = IF listeners[n] > 0 THEN OnLoad(@, Options) ELSE @]
    /\ loadSeen' = loadSeen \cup {n}
    /\ loadRuns' = [loadRuns EXCEPT ![n] = @ + listeners[n]]
    /\ UNCHANGED << errorRuns, startup, Options, hasIO, hasMO, window, phase, doc, watchSet, prevInt, ioQueue,
                    moQueue, listeners, loadListeners, loadFired, created, pageOps,
                    unveiled, everWatched, entered, immediate, errorSeen >>

\* A fetch started for n fails: the error event runs the error listeners of n.
ElementError(n) ==
    /\ TaskStep
    /\ fetches[n] > 0
    /\ fetches' = [fetches EXCEPT ![n] = @ - 1]
    /\ el' = [el EXCEPT ![n] = IF listeners[n] > 0 THEN OnError(@, Options) ELSE @]
    /\ errorSeen' = errorSeen \cup {n}
    /\ errorRuns' = [errorRuns EXCEPT ![n] = @ + listeners[n]]
    /\ UNCHANGED << loadRuns, startup, Options, hasIO, hasMO, window, phase, doc, watchSet, prevInt, ioQueue,
                    moQueue, listeners, loadListeners, loadFired, created, pageOps,
                    unveiled, everWatched, entered, immediate, loadSeen >>

\* ------------------------------------------------------------ specification
\* The state when the script starts: some of the author's elements are in the
\* document, in the order written; the images and blocks are on screen or
\* below the fold.
InitialDocs == { SelectSeq(SetToSeq(AuthorNodes), LAMBDA n : n \in A) : A \in SUBSET AuthorNodes }

InitialRects(n) == IF AuthorElements[n].tag = "SCRIPT" THEN {ZeroRect} ELSE {OnRect, OffRect}

Init ==
    /\ Options = DefaultOptions
    /\ hasIO \in BOOLEAN
    /\ hasMO \in BOOLEAN
    /\ window = Viewport
    /\ phase = "init"
    /\ \E rects \in [AuthorNodes -> {OnRect, OffRect, ZeroRect}] :
          /\ \A n \in AuthorNodes : rects[n] \in InitialRects(n)
          /\ el = [n \in Nodes |->
                      IF n \in AuthorNodes
                      THEN [AuthorElements[n] EXCEPT !.rect = rects[n]]
                      ELSE NoElement]
    /\ doc \in InitialDocs
    /\ watchSet = {}
    /\ prevInt = [n \in Nodes |-> "none"]
    /\ ioQueue = <<>>
    /\ moQueue = <<>>
    /\ listeners = [n \in Nodes |-> 0]
    /\ loadListeners = <<>>
    /\ loadFired = FALSE
    /\ fetches = [n \in Nodes |-> 0]
    /\ created = 0
    /\ pageOps = 0
    /\ unveiled = [n \in Nodes |-> 0]
    /\ everWatched = {}
    /\ entered = {}
    /\ immediate = {}
    /\ startup = [n \in Nodes |-> "absent"]
    /\ loadSeen = {}
    /\ errorSeen = {}
    /\ loadRuns = [n \in Nodes |-> 0]
    /\ errorRuns = [n \in Nodes |-> 0]

\* Nothing has run yet: no observer, no listener, no history.
NothingYet ==
    /\ phase = "init"
    /\ watchSet = {}
    /\ prevInt = [n \in Nodes |-> "none"]
    /\ ioQueue = <<>>
    /\ moQueue = <<>>
    /\ listeners = [n \in Nodes |-> 0]
    /\ loadListeners = <<>>
    /\ loadFired = FALSE
    /\ fetches = [n \in Nodes |-> 0]
    /\ created = 0
    /\ pageOps = 0
    /\ unveiled = [n \in Nodes |-> 0]
    /\ everWatched = {}
    /\ entered = {}
    /\ immediate = {}
    /\ startup = [n \in Nodes |-> "absent"]
    /\ loadSeen = {}
    /\ errorSeen = {}
    /\ loadRuns = [n \in Nodes |-> 0]
    /\ errorRuns = [n \in Nodes |-> 0]

\* The detached elements that exist.
Detached == { n \in Nodes : el[n].tag # "none" /\ ~InDoc(doc, n) }

Next ==
    \/ fastLazyLoad
    \/ \E r \in Detached : \E D \in SUBSET (Detached \ {r}) : InsertSubtree(r, D)
    \/ \E n \in Nodes : MoveNode(n)
    \/ \E n \in Nodes : RemoveNode(n)
    \/ \E n \in Nodes : \E r \in {OnRect, OffRect} : Relayout(n, r)
    \/ \E order \in Orders(Changed) : UpdateRendering(order)
    \/ IntersectionCallback
    \/ MutationDelivery
    \/ WindowLoad
    \/ \E n \in Nodes : ElementLoad(n)
    \/ \E n \in Nodes : ElementError(n)

Spec == Init /\ [][Next]_vars

TypeOK ==
    /\ phase \in {"init", "coordinator", "fallback"}
    /\ watchSet \subseteq Nodes
    /\ created <= MaxPageOps
    /\ pageOps <= MaxPageOps

\* ------------------------------------------------ further events on an element
\* The resource of a revealed element is requested again (the page assigns
\* src once more, a revealed frame navigates): one more load or error event
\* will be dispatched on the element.
Refetch(n) ==
    /\ PageStep
    /\ InDoc(doc, n)
    /\ el[n].tag # "SCRIPT"
    /\ el[n].src # None
    /\ fetches' = [fetches EXCEPT ![n] = @ + 1]
    /\ UNCHANGED << loadRuns, errorRuns, startup, Options, hasIO, hasMO, window, phase, el,
                    doc, watchSet, prevInt, ioQueue, moQueue, listeners, loadListeners,
                    loadFired, created, unveiled, everWatched, entered, immediate,
                    loadSeen, errorSeen >>

NextEvents == Next \/ \E n \in Nodes : Refetch(n)

SpecEvents == Init /\ [][NextEvents]_vars

\* ---------------------------------------------------------- the priority hint
\* Elements for the priority hint: every kind of tag the classifier tells
\* apart, with and without a fetchpriority attribute written by the author, on
\* screen or below the fold.
PriorityInputs ==
    { [AuthorElements[1] EXCEPT !.tag = tg, !.fetchpriority = fp, !.rect = r] :
        tg \in {"IMG", "VIDEO", "DIV"}, fp \in {None, "low", "auto"},
        r \in {OnRect, OffRect} }

\* The state when the script starts on a page with one such element, in the
\* document or still detached.
InitPriority ==
    /\ Options = DefaultOptions
    /\ hasIO \in BOOLEAN
    /\ hasMO \in BOOLEAN
    /\ window = Viewport
    /\ \E e \in PriorityInputs : el = [n \in Nodes |-> IF n = 1 THEN e ELSE NoElement]
    /\ doc \in {<<>>, <<1>>}
    /\ NothingYet

SpecPriority == InitPriority /\ [][Next]_vars

\* ------------------------------------------------- the configuration override
\* window.lazyloadOptions set by the page before the script runs: the default
\* record with the marker attribute renamed.
CustomOptions == [DefaultOptions EXCEPT !.attribute = "defer"]

\* The author's element written for the marker attribute data-<a>: the value
\* is carried by data-<a>, and data-lazy is not written unless a is "lazy".
Authored(e, a) ==
    [e EXCEPT !.data = [NoData EXCEPT ![a] = e.data["lazy"]]]

\* The state when the script starts on a page that may have set
\* window.lazyloadOptions; the author's elements carry the configured marker.
InitOptions ==
    /\ Options \in {DefaultOptions, CustomOptions}
    /\ hasIO \in BOOLEAN
    /\ hasMO \in BOOLEAN
    /\ window = Viewport
    /\ \E rects \in [AuthorNodes -> {OnRect, OffRect, ZeroRect}] :
          /\ \A n \in AuthorNodes : rects[n] \in InitialRects(n)
          /\ el = [n \in Nodes |->
                      IF n \in AuthorNodes
                      THEN [Authored(AuthorElements[n], Options.attribute)
                               EXCEPT !.rect = rects[n]]
                      ELSE NoElement]
    /\ doc \in InitialDocs
    /\ NothingYet

SpecOptions == InitOptions /\ [][Next]_vars

\* ------------------------------------------- the Reveal Operation on its own
\* Elements to reveal: every tag, marker value (the empty one too), inline
\* background image and previous src.
RevealInputs ==
    { [AuthorElements[1] EXCEPT !.tag = tg, !.data["lazy"] = x, !.bg = b, !.src = sr] :
        tg \in {"IMG", "VIDEO", "DIV"}, x \in {"a.png", "b.png", "c.mp4", ""},
        b \in {None, Url("proxy.jpg"), Url("")}, sr \in {None, "proxy.jpg"} }

InitReveal ==
    /\ Options = DefaultOptions
    /\ hasIO = TRUE
    /\ hasMO = TRUE
    /\ window = Viewport
    /\ phase = "init"
    /\ \E e \in RevealInputs : el = [n \in Nodes |-> IF n = 1 THEN e ELSE NoElement]
    /\ doc = <<1>>
    /\ watchSet = {}
    /\ prevInt = [n \in Nodes |-> "none"]
    /\ ioQueue = <<>>
    /\ moQueue = <<>>
    /\ listeners = [n \in Nodes |-> 0]
    /\ loadListeners = <<>>
    /\ loadFired = FALSE
    /\ fetches = [n \in Nodes |-> 0]
    /\ created = 0
    /\ pageOps = 0
    /\ unveiled = [n \in Nodes |-> 0]
    /\ everWatched = {}
    /\ entered = {}
    /\ immediate = {}
    /\ startup = [n \in Nodes |-> "absent"]
    /\ loadSeen = {}
    /\ errorSeen = {}
    /\ loadRuns = [n \in Nodes |-> 0]
    /\ errorRuns = [n \in Nodes |-> 0]

\* One call of unveil on the element.
Reveal(n) ==
    /\ Matches(el[n], Options)
    /\ Commit(unveil(Cur, n, Options))
    /\ UNCHANGED << loadRuns, errorRuns, Options, hasIO, hasMO, window, phase, ioQueue, loadFired, pageOps,
                    startup, loadSeen, errorSeen >>

NextReveal == \E n \in Nodes : Reveal(n)

SpecReveal == InitReveal /\ [][NextReveal]_vars

\* ------------------------------------- the Reveal Operation with a source set
\* The name under which element.dataset exposes the attribute data-<a>: each
\* hyphen followed by a lower-case letter is dropped and the letter upper-cased.
DatasetKey ==
    [a \in DataNames |->
        CASE a = "lazy" -> "lazy"
          [] a = "defer" -> "defer"
          [] a = "lazy-srcset" -> "lazySrcset"
          [] a = "defer-srcset" -> "deferSrcset"]

\* key in element.dataset
InDataset(e, key) == \E a \in DataNames : e.data[a] # None /\ DatasetKey[a] = key

\* element.dataset[key]
DatasetGet(e, key) ==
    IF InDataset(e, key)
    THEN e.data[CHOOSE a \in DataNames : e.data[a] # None /\ DatasetKey[a] = key]
    ELSE None

\* unveil of the variant that has a source-set branch: the element after the
\* call.  The test is ([Options.attribute] + '-srcset') in dataset, and the
\* value assigned is dataset[Options.attribute] + '-srcset'.
unveilElementSrcset(e, opts) ==
    LET shown ==
            IF e.bg # None
            THEN [e EXCEPT !.bg = Url(DatasetGet(e, opts.attribute))]
            ELSE LET withSrc == [e EXCEPT !.src = Str(DatasetGet(e, opts.attribute))]
                 IN  IF InDataset(e, opts.attribute \o "-srcset")
                     THEN [withSrc EXCEPT
                             !.srcset = Str(DatasetGet(e, opts.attribute)) \o "-srcset"]
                     ELSE withSrc
    IN  [shown EXCEPT !.data[opts.attribute] = None]

unveilSrcset(s, n, opts) ==
    [s EXCEPT !.el[n] = unveilElementSrcset(s.el[n], opts),
              !.fetches[n] = IF s.el[n].bg # None THEN @ ELSE @ + 1,
              !.unveiled[n] = @ + 1]

\* Elements to reveal: with and without the companion attribute, with and
\* without a srcset already set, with and without an inline background image.
SrcsetInputs(a) ==
    { [Authored(AuthorElements[1], a) EXCEPT
          !.tag = tg, !.data[Companion(a)] = c, !.srcset = ss, !.bg = b] :
        tg \in {"IMG", "VIDEO"}, c \in {None, "a-480.png 480w", "a-2x.png 2x"},
        ss \in {None, "old.png 1x"}, b \in {None, Url("proxy.jpg")} }

InitSrcset ==
    /\ Options \in {DefaultOptions, CustomOptions}
    /\ hasIO = TRUE
    /\ hasMO = TRUE
    /\ window = Viewport
    /\ \E e \in SrcsetInputs(Options.attribute) :
          el = [n \in Nodes |-> IF n = 1 THEN e ELSE NoElement]
    /\ doc = <<1>>
    /\ NothingYet

\* One call of unveil of the variant on the element.
RevealSrcset(n) ==
    /\ Matches(el[n], Options)
    /\ Commit(unveilSrcset(Cur, n, Options))
    /\ UNCHANGED << loadRuns, errorRuns, Options, hasIO, hasMO, window, phase, ioQueue,
                    loadFired, pageOps, startup, loadSeen, errorSeen >>

NextSrcset == \E n \in Nodes : Reveal(n) \/ RevealSrcset(n)

SpecSrcset == InitSrcset /\ [][NextSrcset]_vars

\* ------------------------------------------- the Viewport Predicate on its own
\* Bounding rectangles with integer coordinates: outside, across and inside
\* the viewport, touching its edges, empty or not.
Rects ==
    { rect \in [top : -1..MaxCoord, left : -1..MaxCoord,
                bottom : -1..MaxCoord, right : -1..MaxCoord] :
        rect.bottom >= rect.top /\ rect.right >= rect.left }

\* Viewport sizes: the inner size reported by the window or zero, and the
\* client size of the document root.
Windows ==
    [innerWidth : {0, MaxCoord - 1}, innerHeight : {0, MaxCoord - 1},
     clientWidth : {MaxCoord - 1, MaxCoord}, clientHeight : {MaxCoord - 1, MaxCoord}]

InitViewport ==
    /\ Options = DefaultOptions
    /\ hasIO = TRUE
    /\ hasMO = TRUE
    /\ window \in Windows
    /\ \E r \in Rects :
          el = [n \in Nodes |-> IF n = 1 THEN [AuthorElements[1] EXCEPT !.rect = r]
                                          ELSE NoElement]
    /\ doc = <<1>>
    /\ NothingYet

\* The classifier on an element that is in the document and was not classified
\* before: one call of isElementInViewport decides between the immediate reveal
\* and the Watch Set.
Probe(n) ==
    /\ Matches(el[n], Options)
    /\ n \notin watchSet
    /\ Commit(Classify(Cur, n, Options, window))
    /\ UNCHANGED << loadRuns, errorRuns, Options, hasIO, hasMO, window, phase, ioQueue,
                    loadFired, pageOps, startup, loadSeen, errorSeen >>

NextViewport == \E n \in Nodes : Probe(n)

SpecViewport == InitViewport /\ [][NextViewport]_vars

\* ===================================================================== claims
Range(q) == { q[i] : i \in DOMAIN q }

\* The value of the marker attribute of n.
Marker(n) == el[n].data[Options.attribute]

\* C1: on the coordinator path unveil is executed at most once per element,
\* under every interleaving of mutation and intersection callbacks.
C1_RevealedAtMostOnce ==
    phase = "coordinator" => \A n \in Nodes : unveiled[n] <= 1

\* C2: no revealed element is a member of the Watch Set.
C2_NoRevealedElementWatched ==
    \A n \in watchSet : unveiled[n] = 0 /\ Marker(n) # None

\* C3 (Scenario A): an image that carries the marker and is off screen at
\* activation stays unrevealed (src unset, marker present, watched) in every
\* state until an isIntersecting entry is handled for it, and right after that
\* entry its src is the marker value and the marker is gone.
ScenarioANode(n) ==
    /\ phase' = "coordinator"
    /\ startup'[n] = "offscreen"
    /\ el[n].tag # "SCRIPT"
    /\ el[n].bg = None

C3_ScenarioA ==
    [][\A n \in Nodes :
          ScenarioANode(n) =>
             /\ n \notin entered' =>
                   /\ el'[n].src = None
                   /\ el'[n].data[Options.attribute] # None
                   /\ n \in watchSet'
             /\ (n \notin entered /\ n \in entered') =>
                   /\ el'[n].src = Marker(n)
                   /\ el'[n].data[Options.attribute] = None]_vars

\* C4 (Scenario B), as stated: an element with the marker that is on screen
\* when the entry point runs has its src equal to the marker value as soon as
\* the entry point has returned, and is never added to the Watch Set.
C4_ScenarioB ==
    \A n \in AuthorNodes :
       (/\ phase = "coordinator"
        /\ startup[n] = "onscreen"
        /\ AuthorElements[n].bg = None)
       => /\ el[n].src = AuthorElements[n].data["lazy"]
          /\ n \notin everWatched

\* C4, amended: the entry point does not reveal an on-screen element that
\* carries the marker: on the coordinator path it adds the element to the Watch
\* Set and leaves the element as it was, unveil not called.
C4_ScenarioBObserved ==
    [][(phase = "init" /\ phase' = "coordinator") =>
          \A n \in Nodes :
             (/\ InDoc(doc, n)
              /\ Matches(el[n], Options)
              /\ isElementInViewport(el[n].rect, window))
             => /\ n \in watchSet'
                /\ el'[n] = el[n]
                /\ unveiled'[n] = 0]_vars

\* The entry point has just returned with an on-screen element, still
\* unrevealed, in the Watch Set.
C4_Witness ==
    /\ phase = "coordinator"
    /\ pageOps = 0
    /\ ioQueue = <<>>
    /\ \E n \in watchSet :
          /\ startup[n] = "onscreen"
          /\ prevInt[n] = "none"
          /\ unveiled[n] = 0
          /\ el[n].src = None
          /\ Marker(n) = "a.png"

C6_ScenarioD ==
    [][\A n \in Nodes :
          (/\ phase = "coordinator"
           /\ startup[n] # "absent"
           /\ el[n].tag = "SCRIPT")
          => /\ ~loadFired' => el'[n] = el[n]
             /\ (~loadFired /\ loadFired' /\ InDoc(doc, n)) =>
                   /\ ~InDoc(doc', n)
                   /\ LET m == doc'[IndexOf(doc, n)]
                      IN  /\ m # n
                          /\ el'[m].tag = "SCRIPT"
                          /\ el'[m].src = Marker(n)
                          /\ el'[m].data[Options.attribute] = Marker(n)]_vars

\* C7: once the mutation records are delivered, every element of the document
\* that carries the marker (so is not revealed) is in the Watch Set or was
\* handed to the script deferral procedure, whether it was an added node or a
\* descendant of one.
C7_InsertedElementsHandled ==
    (phase = "coordinator" /\ moQueue = <<>>) =>
       \A n \in Nodes :
          (InDoc(doc, n) /\ Matches(el[n], Options)) =>
             n \in watchSet \/ n \in Range(loadListeners)

\* C8: an element revealed on the coordinator path has the `loaded` class once
\* the platform signalled load success for it, and the `failed` class once it
\* signalled failure, whichever branch revealed it.
C8_RevealedGetLifecycleClasses ==
    phase = "coordinator" =>
       \A n \in Nodes :
          unveiled[n] > 0 =>
             /\ n \in loadSeen => Options.loaded \in el[n].classes
             /\ n \in errorSeen => Options.failed \in el[n].classes

\* C9 (Scenario E): without one of the two primitives every element matching
\* the marker at activation is revealed by the entry point, once, and carries
\* `loaded` and neither `loading` nor `on`; there is no Watch Set and no element
\* inserted later is touched.  The coordinator runs exactly when both exist.
RevealedFrom(e0, e) ==
    /\ e.data["lazy"] = None
    /\ IF e0.bg # None
       THEN e.bg = Url(e0.data["lazy"]) /\ e.src = e0.src
       ELSE e.src = e0.data["lazy"] /\ e.bg = e0.bg

C9_Fallback ==
    /\ phase = "coordinator" => (hasIO /\ hasMO)
    /\ phase = "fallback" =>
          /\ ~(hasIO /\ hasMO)
          /\ watchSet = {} /\ everWatched = {} /\ ioQueue = <<>> /\ moQueue = <<>>
          /\ loadListeners = <<>> /\ created = 0
          /\ \A n \in AuthorNodes :
                IF startup[n] # "absent"
                THEN /\ unveiled[n] = 1
                     /\ RevealedFrom(AuthorElements[n], el[n])
                     /\ el[n].classes = {Options.loaded}
                ELSE /\ unveiled[n] = 0
                     /\ [el[n] EXCEPT !.rect = AuthorElements[n].rect] = AuthorElements[n]

\* The fallback revealed the image, and the page later inserted the block,
\* which still carries its marker.
C9_Witness ==
    /\ phase = "fallback"
    /\ ~hasIO
    /\ startup[1] # "absent" /\ el[1].src = "a.png" /\ Options.loaded \in el[1].classes
    /\ startup[2] = "absent" /\ InDoc(doc, 2) /\ Marker(2) = "b.png"
    /\ 1 \in loadSeen

\* C10: unveil on an element with a non-empty inline background image sets the
\* background image to url(X) and does not assign src; on any other element it
\* sets src to X; in both branches the marker attribute is removed.
C10_RevealRoundTrip ==
    [][\A n \in Nodes :
          (unveiled'[n] = unveiled[n] + 1 /\ Marker(n) # None) =>
             /\ el'[n].data[Options.attribute] = None
             /\ IF el[n].bg # None
                THEN /\ el'[n].bg = "url(" \o Marker(n) \o ")"
                     /\ el'[n].src = el[n].src
                     /\ fetches'[n] = fetches[n]
                ELSE /\ el'[n].src = Marker(n)
                     /\ el'[n].bg = None]_vars

\* unveil took the background branch for marker value b.png on an element
\* that had a src: the background is url(b.png), the src is the old one.
C10_Witness ==
    /\ unveiled[1] = 1
    /\ el[1].data["lazy"] = None
    /\ el[1].bg = "url(b.png)"
    /\ el[1].src = "proxy.jpg"


\* C11: with the marker attribute configured as A, a reveal leaves src (or the
\* background image) equal to the former value of data-A and data-A absent,
\* and the script element that replaces a placeholder gets its src from the
\* placeholder's data-A.
C11_ConfiguredAttribute ==
    [][\A n \in Nodes :
          /\ (unveiled'[n] = unveiled[n] + 1 /\ Marker(n) # None) =>
                /\ el'[n].data[Options.attribute] = None
                /\ IF el[n].bg # None
                   THEN el'[n].bg = Url(Marker(n))
                   ELSE el'[n].src = Marker(n)
          /\ (el[n].tag = "none" /\ el'[n].tag = "SCRIPT") =>
                \E p \in Range(loadListeners) : el'[n].src = Marker(p)]_vars

\* C12: a reveal through the src branch of an element that carries
\* data-<attribute>-srcset with value S sets srcset to exactly S, and leaves
\* srcset untouched when the companion attribute is absent.
C12_CompanionSrcset ==
    [][\A n \in Nodes :
          (unveiled'[n] = unveiled[n] + 1 /\ el[n].bg = None) =>
             LET S == el[n].data[Companion(Options.attribute)]
             IN  IF S # None
                 THEN el'[n].srcset = S
                 ELSE el'[n].srcset = el[n].srcset]_vars

\* C12 for the variant alone.
C12_CompanionSrcsetVariant ==
    [][\A n \in Nodes :
          (RevealSrcset(n) /\ el[n].bg = None) =>
             LET S == el[n].data[Companion(Options.attribute)]
             IN  IF S # None
                 THEN el'[n].srcset = S
                 ELSE el'[n].srcset = el[n].srcset]_vars

\* C13 (Scenario F): a load-error event on an element revealed through a
\* viewport-entry event adds the failed class to it and changes nothing else:
\* its other classes and its attributes are unchanged, the Watch Set is
\* unchanged, and no other element changes.
C13_ErrorAddsFailedOnly ==
    [][\A n \in Nodes :
          (ElementError(n) /\ n \in entered) =>
             /\ el'[n] = [el[n] EXCEPT !.classes = @ \cup {Options.failed}]
             /\ Options.failed \in el'[n].classes
             /\ \A m \in Nodes \ {n} : el'[m] = el[m]
             /\ watchSet' = watchSet
             /\ everWatched' = everWatched
             /\ unveiled' = unveiled
             /\ doc' = doc]_vars

\* An image revealed by a viewport-entry event failed to load: it carries
\* failed next to on and loading, its src is the revealed URL, it is not
\* watched.
C13_Witness ==
    \E n \in entered :
       /\ errorRuns[n] = 1
       /\ el[n].classes = {Options.on, Options.loading, Options.failed}
       /\ el[n].src = "a.png"
       /\ n \notin watchSet

\* C14: the handling of a viewport-entry event for an element leaves it with
\* the on and loading classes, revealed (unveil called on it, marker absent,
\* src or background image populated, with the marker value when this is the
\* only unveil call the element ever had) and out of the Watch Set; a
\* load-success event delivered afterwards leaves it with loaded and on and
\* without loading.
C14_EntryThenLoad ==
    [][\A n \in Nodes :
          /\ listeners'[n] > listeners[n] =>
                /\ {Options.on, Options.loading} \subseteq el'[n].classes
                /\ el'[n].data[Options.attribute] = None
                /\ unveiled'[n] > unveiled[n]
                /\ IF el[n].bg # None THEN el'[n].bg # None ELSE el'[n].src # None
                /\ unveiled'[n] = 1 =>
                      /\ Marker(n) # None
                      /\ IF el[n].bg # None
                         THEN el'[n].bg = Url(Marker(n))
                         ELSE el'[n].src = Marker(n)
                /\ n \notin watchSet'
          /\ (ElementLoad(n) /\ n \in entered) =>
                /\ Options.loaded \in el'[n].classes
                /\ Options.loading \notin el'[n].classes
                /\ Options.on \in el'[n].classes]_vars

\* A watched image entered the viewport and then loaded.
C14_Witness ==
    \E n \in entered :
       /\ n \in everWatched
       /\ n \notin watchSet
       /\ loadRuns[n] = 1
       /\ el[n].classes = {Options.on, Options.loaded}
       /\ el[n].src = "a.png"
       /\ Marker(n) = None

\* C15: classification of a non-script element that has been revealed is a
\* no-op, and the delivery of mutation records that carry it as an added node
\* changes neither the element nor its membership of the Watch Set.
C15_ReclassificationNoOp ==
    [][\A n \in Nodes :
          (unveiled[n] > 0 /\ el[n].tag # "SCRIPT") =>
             /\ Classify(Cur, n, Options, window) = Cur
             /\ (/\ MutationDelivery
                 /\ \E i \in DOMAIN moQueue : n \in Range(moQueue[i].addedNodes))
                => /\ el'[n] = el[n]
                   /\ unveiled'[n] = unveiled[n]
                   /\ (n \in watchSet') = (n \in watchSet)]_vars

\* An image on screen at activation was revealed by its viewport-entry event;
\* the page then moved it to the end of the document and the records of the
\* move were delivered.
C15_Witness ==
    /\ pageOps = 1
    /\ moQueue = <<>>
    /\ doc = <<2, 1>>
    /\ startup[1] = "onscreen"
    /\ 1 \in entered
    /\ immediate = {}
    /\ unveiled[1] = 1
    /\ el[1].src = "a.png"

\* C16: once the window load event has fired, no placeholder that was handed
\* to lazyscript is still in the document waiting for its replacement; this
\* covers the placeholders inserted after the load event.
C16_DeferredScriptsReplaced ==
    (loadFired /\ moQueue = <<>>) =>
       \A p \in Range(loadListeners) : ~InDoc(doc, p)

\* C17: the load and error listeners registered for an element at viewport
\* entry are one-shot: the load listener body runs at most once on the element
\* and so does the error listener body, whatever events are delivered to it.
C17_ListenersOneShot ==
    \A n \in Nodes : loadRuns[n] <= 1 /\ errorRuns[n] <= 1

\* C18: when the classifier reveals an inserted element through the
\* immediate-viewport branch, its fetchpriority becomes high if and only if its
\* tag is IMG or VIDEO and it carried no fetchpriority; an existing value is
\* preserved; in every other step (elements of other tags, elements sent to
\* the Watch Set, entries, fallback) no element's fetchpriority changes.
C18_PriorityHint ==
    [][\A n \in Nodes :
          IF n \in immediate' /\ n \notin immediate
          THEN el'[n].fetchpriority =
                  IF el[n].tag \in {"IMG", "VIDEO"} /\ el[n].fetchpriority = None
                  THEN "high"
                  ELSE el[n].fetchpriority
          ELSE el[n].tag # "none" => el'[n].fetchpriority = el[n].fetchpriority]_vars

\* A video without the attribute was revealed by the classifier and has the
\* hint (no author's element of this specification is written with "high").
C18_Witness ==
    \E n \in immediate :
       /\ el[n].tag = "VIDEO"
       /\ el[n].fetchpriority = "high"
       /\ el[n].src = "a.png"
       /\ n \notin everWatched

\* C19: an entry whose isIntersecting flag is false changes nothing, and a
\* registered element that is pending (watched, marker present, not revealed)
\* stays pending, with its classes and src as they were, in every step that
\* does not handle a viewport-entry event for it: it leaves the pending state
\* only through a reveal by intersection entry.
C19_PendingUntilEntry ==
    [][\A n \in Nodes :
          /\ HandleEntry(Cur, [target |-> n, isIntersecting |-> FALSE], Options) = Cur
          /\ (n \in watchSet /\ Marker(n) # None /\ unveiled[n] = 0) =>
                \/ /\ n \in watchSet'
                   /\ el'[n].data[Options.attribute] = Marker(n)
                   /\ unveiled'[n] = 0
                   /\ el'[n].classes = el[n].classes
                   /\ el'[n].src = el[n].src
                \/ /\ listeners'[n] > listeners[n]
                   /\ n \in entered'
                   /\ n \notin watchSet']_vars

\* C20: for a batch of intersection entries with distinct targets, the
\* elements (classes, src, marker attributes) and the Watch Set after
\* lazyLoadBackgrounds has processed the batch are the same for every ordering
\* of the entries.
C20_BatchOrderIndependent ==
    Cardinality({ ioQueue[i].target : i \in DOMAIN ioQueue }) = Len(ioQueue) =>
       \A order \in Orders(Range(ioQueue)) :
          LET inOrder == lazyLoadBackgrounds(Cur, order, Options)
              asQueued == lazyLoadBackgrounds(Cur, ioQueue, Options)
          IN  /\ inOrder.el = asQueued.el
              /\ inOrder.watchSet = asQueued.watchSet

\* The first batch after activation carried entries for the image and the
\* block, both on screen, and the handler has processed it.
C20_Witness ==
    /\ pageOps = 0
    /\ ioQueue = <<>>
    /\ entered = {1, 2}
    /\ watchSet \cap {1, 2} = {}
    /\ el[1].src = "a.png"
    /\ el[2].bg = Url("b.png")
    /\ \A n \in {1, 2} : {Options.on, Options.loading} \subseteq el[n].classes

\* The records with their removed nodes taken out.
AddedOnly(records) ==
    [i \in DOMAIN records |-> [records[i] EXCEPT !.removedNodes = <<>>]]

\* C21: the removed nodes of the mutation records are ignored: a delivery has
\* the effect it would have without them, a delivery of records that only
\* remove changes neither an element nor the Watch Set, and a watched element
\* stays in the Watch Set (unchanged and unrevealed while it is outside the
\* document) in every step that does not handle a viewport-entry event for it.
C21_RemovedNodesIgnored ==
    [][/\ MutationDelivery =>
             /\ Cur' = MutationCallback([Cur EXCEPT !.moQueue = <<>>], AddedOnly(moQueue),
                                        Options, window)
             /\ (\A i \in DOMAIN moQueue : moQueue[i].addedNodes = <<>>) =>
                   /\ el' = el
                   /\ watchSet' = watchSet
       /\ \A n \in watchSet :
             \/ listeners'[n] > listeners[n]
             \/ /\ n \in watchSet'
                /\ (~InDoc(doc, n) /\ unveiled[n] = 0) =>
                      (unveiled'[n] = 0 /\ el'[n] = el[n])]_vars

\* An image that was in the document and watched was removed by the page, the
\* record of the removal was delivered, and it is still watched, unrevealed.
C21_Witness ==
    \E n \in watchSet :
       /\ startup[n] # "absent"
       /\ ~InDoc(doc, n)
       /\ pageOps >= 1
       /\ moQueue = <<>>
       /\ unveiled[n] = 0
       /\ Marker(n) = "a.png"

\* C22: a script placeholder handed to lazyscript by the mutation callback is
\* left unchanged and is not put in the Watch Set, by that step or any later
\* one; when window load fires, for every such placeholder in the document a
\* new script element that carries the marker attribute with the same value,
\* no other attribute, and src equal to the pending URL takes the place of the
\* placeholder in the document, the placeholder is out of the document, and
\* every other node keeps its position.
C22_ScriptDeferral ==
    [][/\ \A p \in Range(loadListeners') :
             /\ el'[p] = el[p]
             /\ p \notin watchSet => p \notin watchSet'
       /\ WindowLoad =>
             /\ Len(doc') = Len(doc)
             /\ \A i \in DOMAIN doc :
                   IF doc[i] \in Range(loadListeners)
                   THEN LET p == doc[i]
                            new == doc'[i]
                        IN  /\ el[new].tag = "none"
                            /\ el'[new] = [NoElement EXCEPT
                                              !.tag = "SCRIPT",
                                              !.data[Options.attribute] = Marker(p),
                                              !.src = Marker(p)]
                            /\ Marker(p) # None
                            /\ ~InDoc(doc', p)
                   ELSE doc'[i] = doc[i]]_vars

\* The page appended the placeholder and then moved the block behind it; the
\* load event replaced the placeholder, between the image and the block, by a
\* new script with src c.js and without the type attribute.
C22_Witness ==
    /\ loadFired
    /\ created = 1
    /\ doc = <<1, 4, 2>>
    /\ el[4].tag = "SCRIPT"
    /\ el[4].src = "c.js"
    /\ el[4].data["lazy"] = "c.js"
    /\ el[4].extra = {}
    /\ el[3] = AuthorElements[3]
    /\ 3 \notin everWatched

\* The script placeholders the page author wrote.
Placeholders == { n \in AuthorNodes : AuthorElements[n].tag = "SCRIPT" }

\* C23: script replacement does not cascade: the coordinator never creates
\* more script elements than there are placeholders.
C23_CreatedAtMostPlaceholders ==
    created <= Cardinality(Placeholders)

\* The part of C23 about the cascade alone: once window load has fired the
\* coordinator creates no script element, so no replacement script is replaced
\* in turn, and the document never holds more replacement scripts than there
\* are placeholders.
C23_NoCascade ==
    [][/\ loadFired => created' = created
       /\ Cardinality({ n \in Nodes \ AuthorNodes : InDoc(doc', n) })
             <= Cardinality(Placeholders)]_vars

\* C24: the loading class is removed only by the load listener: every step
\* that takes it from an element is a load event on that element with the
\* listener registered, and an element revealed by a viewport-entry event on
\* which the error listener has run and the load listener has not carries
\* loading and failed together.
C24_LoadingRemovedOnlyByLoad ==
    [][\A n \in Nodes :
          /\ (Options.loading \in el[n].classes /\ Options.loading \notin el'[n].classes) =>
                (ElementLoad(n) /\ listeners[n] > 0)
          /\ (n \in entered' /\ errorRuns'[n] > 0 /\ loadRuns'[n] = 0) =>
                {Options.loading, Options.failed} \subseteq el'[n].classes]_vars

\* An image revealed by its viewport-entry event failed to load and never
\* loaded; the page has since removed it from the document and window load
\* has fired: it still carries loading and failed.
C24_Witness ==
    \E n \in entered :
       /\ errorRuns[n] > 0
       /\ n \notin loadSeen
       /\ fetches[n] = 0
       /\ ~InDoc(doc, n)
       /\ loadFired
       /\ {Options.loading, Options.failed} \subseteq el[n].classes

\* The viewport width and height the claim names: the window's inner size when
\* it is not zero, the client size of the document root otherwise.
ViewportWidth == IF window.innerWidth # 0 THEN window.innerWidth ELSE window.clientWidth

ViewportHeight == IF window.innerHeight # 0 THEN window.innerHeight ELSE window.clientHeight

\* bottom > 0, right > 0, left < W and top < H.
Overlaps(rect) ==
    /\ rect.bottom > 0
    /\ rect.right > 0
    /\ rect.left < ViewportWidth
    /\ rect.top < ViewportHeight

\* C25: for every bounding rectangle and viewport size over the bounded
\* integers the Viewport Predicate is true exactly when bottom > 0, right > 0,
\* left < W and top < H; a rectangle that only touches an edge is not in the
\* viewport; the classifier takes the immediate branch exactly when it is true
\* and the Watch Set branch otherwise, and the call changes neither the
\* rectangle nor the window.
C25_ViewportPredicate ==
    [][\A n \in Nodes :
          el[n].tag # "none" =>
             LET rect == el[n].rect
             IN  /\ isElementInViewport(rect, window) = Overlaps(rect)
                 /\ (rect.bottom = 0 \/ rect.right = 0 \/ rect.left = ViewportWidth
                       \/ rect.top = ViewportHeight) => ~isElementInViewport(rect, window)
                 /\ Probe(n) =>
                       /\ (n \in immediate') = Overlaps(rect)
                       /\ (n \in watchSet') = ~Overlaps(rect)
                       /\ el'[n].rect = rect
                       /\ window' = window]_vars

\* A rectangle that lies across the top and the right edge of a viewport whose
\* inner width is reported as zero was found in the viewport.
C25_Witness ==
    /\ window.innerWidth = 0
    /\ window.clientWidth = 2
    /\ 1 \in immediate
    /\ el[1].rect = [top |-> -1, left |-> 1, bottom |-> 1, right |-> 3]
    /\ el[1].src = "a.png"

\* A rectangle whose left edge is the right edge of the viewport was sent to
\* the Watch Set.
C25_WitnessEdge ==
    /\ 1 \in watchSet
    /\ el[1].rect.left = ViewportWidth
    /\ el[1].rect.top = 1
    /\ el[1].rect.bottom = 2
    /\ el[1].rect.right = MaxCoord

==============================================================================
